---------------------------- MODULE Spec2Model ----------------------------
(***************************************************************************)
(* Model of prototype/csv_hashmap/csv_hashmap.cpp: a CSV file is read line *)
(* by line, the header is resolved to the positions of the columns         *)
(* package, architecture and release, every later line of the header's     *)
(* shape is stored in a hash map under the key package|architecture|release*)
(* and one fixed key is looked up at the end.                              *)
(*                                                                         *)
(* Text.  A std::string is modelled as a sequence of tokens.  A token is   *)
(* either one of the two characters the program treats specially (","      *)
(* and "|") or a run of ordinary characters ("package", "amd64", ...).     *)
(* No token is a concatenation of other tokens, so two token sequences are *)
(* equal exactly when the strings they spell are equal; operator+ of       *)
(* std::string is \o.  A file is the sequence of its lines.                *)
(*                                                                         *)
(* Positions are kept 0-based as in the code; element i of a vector v is   *)
(* v[i + 1] of the sequence that models it.                                *)
(***************************************************************************)
EXTENDS Integers, Sequences, FiniteSets, TLC

\* Largest number of data lines (lines after the header) of an input file.
MaxDataLines == 3

\* The same for the runs checked for termination.
MaxFairDataLines == 2

---------------------------------------------------------------------------
(* Input domain *)

COMMA == ","
PIPE == "|"

Headers ==
    { <<"package", COMMA, "architecture", COMMA, "release">>,
      <<"package", COMMA, "architecture", COMMA, "release", COMMA, "notes">>,
      <<"architecture", COMMA, "package", COMMA, "release">>,
      <<"package", COMMA, "release">>,
      <<"Package", COMMA, "architecture", COMMA, "release">>,
      <<"package", COMMA, "architecture", COMMA, "release", COMMA>>,
      << >> }

DataLines ==
    { <<"openssl", COMMA, "amd64", COMMA, "22.04">>,
      <<"openssl", COMMA, "amd64", COMMA, "22.04", COMMA, "x">>,
      <<"openssl", COMMA, "amd64", COMMA, "22.04", COMMA, "y">>,
      <<"openssl", COMMA, "amd64", COMMA, "22.04", COMMA>>,
      <<PIPE, COMMA, COMMA, "x">>,
      <<COMMA, PIPE, COMMA, "x">>,
      << >> }

SeqsUpTo(S, n) == UNION { [1..k -> S] : k \in 0..n }

\* The empty file, and every header followed by at most MaxDataLines lines.
Files ==
    { << >> } \cup
    { <<h>> \o d : h \in Headers, d \in SeqsUpTo(DataLines, MaxDataLines) }

FairFiles == { f \in Files : Len(f) <= MaxFairDataLines + 1 }

\* argc values: the program name alone, one argument, two arguments.
Argcs == {1, 2, 3}

---------------------------------------------------------------------------
(* split_csv_row, lines 8-18 *)

\* Position of the first "," of s, 0 when s has none.
FirstComma(s) ==
    IF \E i \in 1..Len(s) : s[i] = COMMA
    THEN CHOOSE i \in 1..Len(s) : s[i] = COMMA /\ \A j \in 1..(i-1) : s[j] # COMMA
    ELSE 0

\* while (std::getline(ss, cell, ',')) result.push_back(cell);
\* std::getline fails, and ends the loop, when the stream has nothing left to
\* extract: on the empty string at once, and after a final "," (the
\* delimiter was extracted by the previous call and the stream is at its end).
RECURSIVE split_csv_row(_)
split_csv_row(line) ==
    IF line = << >> THEN << >>
    ELSE LET k == FirstComma(line) IN
         IF k = 0 THEN << line >>
         ELSE << SubSeq(line, 1, k - 1) >> \o
              split_csv_row(SubSeq(line, k + 1, Len(line)))

(* make_key, lines 20-23 *)

\* A marker for the result of indexing a vector out of its range.
UB == << "undefined behaviour" >>

make_key(r, package_i, arch_i, release_i) ==
    IF \A i \in {package_i, arch_i, release_i} : 0 <= i /\ i < Len(r)
    THEN r[package_i + 1] \o <<PIPE>> \o r[arch_i + 1] \o <<PIPE>> \o r[release_i + 1]
    ELSE UB

---------------------------------------------------------------------------
(* main, lines 25-87 *)

VARIABLES
    pc,           \* where main is: Start, HeaderRead, ColumnsResolved,
                  \* Indexing, Indexed, Queried, Done or Error
    file,         \* the lines of the file argv[1] names
    pos,          \* number of lines std::getline has taken from the file
    line,         \* std::string line
    headers,      \* std::vector<std::string> headers
    package_idx, arch_idx, release_idx,
    hashmap,      \* the unordered_map: a function from keys to rows
    line_num,
    row, key,     \* the loop body's locals, as last assigned
    cout, cerr,   \* what was written to each stream, one record a line
    exit_code     \* main's return value, Running until it returns

vars == << pc, file, pos, line, headers, package_idx, arch_idx, release_idx,
           hashmap, line_num, row, key, cout, cerr, exit_code >>

\* size_t(-1), which is std::string::npos: no position of a vector.
NPOS == -1

\* No return value yet.
Running == -1

EmptyMap == << >>

\* Put as hashmap.insert({k, v}), which keeps the entry a key already has.
PutIfAbsent(h, k, v) ==
    [ x \in (DOMAIN h) \cup {k} |-> IF x \in DOMAIN h THEN h[x] ELSE v ]

Put(h, k, v) == [ x \in (DOMAIN h) \cup {k} |-> IF x = k THEN v ELSE h[x] ]

\* main is entered: nothing read, nothing written.
Started ==
    /\ pc = "Start"
    /\ pos = 0
    /\ line = << >>
    /\ headers = << >>
    /\ package_idx = NPOS /\ arch_idx = NPOS /\ release_idx = NPOS
    /\ hashmap = EmptyMap
    /\ line_num = 0
    /\ row = << >>
    /\ key = << >>
    /\ cout = << >>
    /\ cerr = << >>
    /\ exit_code = Running

Init == file \in Files /\ Started

\* if (argc != 2) { usage; return 1; }
UsageError ==
    /\ pc = "Start"
    /\ \E argc \in Argcs : argc # 2
    /\ cerr' = Append(cerr, [msg |-> "Usage: ./csv_hashmap <csv_file>", arg |-> << >>])
    /\ exit_code' = 1
    /\ pc' = "Error"
    /\ UNCHANGED << file, pos, line, headers, package_idx, arch_idx, release_idx,
                    hashmap, line_num, row, key, cout >>

\* std::ifstream file(argv[1]); if (!file) { ...; return 1; }
OpenError ==
    /\ pc = "Start"
    /\ \E argc \in Argcs, opened \in BOOLEAN : argc = 2 /\ ~opened
    /\ cerr' = Append(cerr, [msg |-> "Error opening file: ", arg |-> << >>])
    /\ exit_code' = 1
    /\ pc' = "Error"
    /\ UNCHANGED << file, pos, line, headers, package_idx, arch_idx, release_idx,
                    hashmap, line_num, row, key, cout >>

\* std::getline(file, line); headers = split_csv_row(line);
\* On an empty file getline fails and leaves line empty.
ReadHeader ==
    /\ pc = "Start"
    /\ \E argc \in Argcs, opened \in BOOLEAN : argc = 2 /\ opened
    /\ line' = IF Len(file) >= 1 THEN file[1] ELSE << >>
    /\ pos' = IF Len(file) >= 1 THEN 1 ELSE 0
    /\ headers' = split_csv_row(line')
    /\ pc' = "HeaderRead"
    /\ UNCHANGED << file, package_idx, arch_idx, release_idx, hashmap, line_num,
                    row, key, cout, cerr, exit_code >>

\* FindColumn with the positions initialised to 0 instead of -1.
FindColumnZero(hdrs, name) ==
    LET hits == { i \in 0..(Len(hdrs) - 1) : hdrs[i + 1] = <<name>> } IN
    IF hits = {} THEN 0
    ELSE CHOOSE i \in hits : \A j \in hits : j <= i

\* size_t x = -1; for (i = 0; i < headers.size(); ++i) if (headers[i] == name) x = i;
\* The last column of that name, NPOS when there is none.
FindColumn(hdrs, name) ==
    LET hits == { i \in 0..(Len(hdrs) - 1) : hdrs[i + 1] = <<name>> } IN
    IF hits = {} THEN NPOS
    ELSE CHOOSE i \in hits : \A j \in hits : j <= i

\* The text of line 50.
MissingColumnsMessage ==
    [ msg |-> "Missing required columns",
      arg |-> << "package", "architecture", "release" >> ]

\* ResolveColumns with the test of arch_idx left out of line 48.
ResolveColumnsNoArch ==
    /\ pc = "HeaderRead"
    /\ package_idx' = FindColumn(headers, "package")
    /\ arch_idx' = FindColumn(headers, "architecture")
    /\ release_idx' = FindColumn(headers, "release")
    /\ IF package_idx' = NPOS \/ release_idx' = NPOS
       THEN /\ cerr' = Append(cerr, MissingColumnsMessage)
            /\ exit_code' = 1
            /\ pc' = "Error"
       ELSE /\ pc' = "ColumnsResolved"
            /\ UNCHANGED << cerr, exit_code >>
    /\ UNCHANGED << file, pos, line, headers, hashmap, line_num, row, key, cout >>

\* Lines 41-52.
ResolveColumns ==
    /\ pc = "HeaderRead"
    /\ package_idx' = FindColumn(headers, "package")
    /\ arch_idx' = FindColumn(headers, "architecture")
    /\ release_idx' = FindColumn(headers, "release")
    /\ IF package_idx' = NPOS \/ arch_idx' = NPOS \/ release_idx' = NPOS
       THEN /\ cerr' = Append(cerr, MissingColumnsMessage)
            /\ exit_code' = 1
            /\ pc' = "Error"
       ELSE /\ pc' = "ColumnsResolved"
            /\ UNCHANGED << cerr, exit_code >>
    /\ UNCHANGED << file, pos, line, headers, hashmap, line_num, row, key, cout >>

\* Lines 54-55: the map is created empty, line_num = 1.
StartIndexing ==
    /\ pc = "ColumnsResolved"
    /\ hashmap' = EmptyMap
    /\ line_num' = 1
    /\ pc' = "Indexing"
    /\ UNCHANGED << file, pos, line, headers, package_idx, arch_idx, release_idx,
                    row, key, cout, cerr, exit_code >>

\* Malformed as row.size() < headers.size(): longer rows pass.
MalformedShorter(r, hdrs) == Len(r) < Len(hdrs)

\* Malformed as row.size() > headers.size(): shorter rows pass.
MalformedLonger(r, hdrs) == Len(r) > Len(hdrs)

\* row.size() != headers.size()
Malformed(r, hdrs) == Len(r) # Len(hdrs)

\* Warning with the line number counted from 0.
WarningFromZero(n) == [ msg |-> "Warning: Skipping malformed line ", arg |-> n - 1 ]

Warning(n) == [ msg |-> "Warning: Skipping malformed line ", arg |-> n ]

\* One turn of the loop of lines 57-67 on the line l, from the loop state s
\* (the map, line_num, the warnings written, the locals row and key).
LoopBody(s, hdrs, package_i, arch_i, release_i, l) ==
    LET n == s.line_num + 1
        r == split_csv_row(l)
    IN  IF Malformed(r, hdrs)
        THEN [ s EXCEPT !.line_num = n, !.row = r,
                        !.cerr = Append(s.cerr, Warning(n)) ]
        ELSE LET k == make_key(r, package_i, arch_i, release_i) IN
             [ s EXCEPT !.line_num = n, !.row = r, !.key = k,
                        !.hashmap = Put(s.hashmap, k, r) ]

\* while (std::getline(file, line)) { ... }: a turn of the loop.
IndexLine ==
    /\ pc = "Indexing"
    /\ pos < Len(file)
    /\ pos' = pos + 1
    /\ line' = file[pos + 1]
    /\ LET s == LoopBody([ hashmap |-> hashmap, line_num |-> line_num,
                           cerr |-> cerr, row |-> row, key |-> key ],
                         headers, package_idx, arch_idx, release_idx, line')
       IN  /\ hashmap' = s.hashmap
           /\ line_num' = s.line_num
           /\ cerr' = s.cerr
           /\ row' = s.row
           /\ key' = s.key
    /\ UNCHANGED << pc, file, headers, package_idx, arch_idx, release_idx,
                    cout, exit_code >>

\* The number line 69 prints.
ReportedCount(h) == Cardinality(DOMAIN h)

\* std::getline fails at the end of the file (line is left empty), the loop
\* ends and line 69 prints hashmap.size().
EndIndexing ==
    /\ pc = "Indexing"
    /\ pos >= Len(file)
    /\ line' = << >>
    /\ cout' = Append(cout, [ msg |-> "Loaded ", arg |-> ReportedCount(hashmap) ])
    /\ pc' = "Indexed"
    /\ UNCHANGED << file, pos, headers, package_idx, arch_idx, release_idx,
                    hashmap, line_num, row, key, cerr, exit_code >>

\* Lines 72-75.
query_package == << "openssl" >>
query_arch == << "amd64" >>
query_release == << "22.04" >>
query_key == query_package \o <<PIPE>> \o query_arch \o <<PIPE>> \o query_release

\* for (const auto& col : it->second) std::cout << col << " | ";
RECURSIVE FoundText(_)
FoundText(r) ==
    IF r = << >> THEN << >>
    ELSE Head(r) \o << " | " >> \o FoundText(Tail(r))

\* Lines 77-84.
QueryOutput(h) ==
    IF query_key \in DOMAIN h
    THEN [ msg |-> "Found: ", arg |-> FoundText(h[query_key]) ]
    ELSE [ msg |-> "Not found: ", arg |-> query_key ]

Query ==
    /\ pc = "Indexed"
    /\ cout' = Append(cout, QueryOutput(hashmap))
    /\ pc' = "Queried"
    /\ UNCHANGED << file, pos, line, headers, package_idx, arch_idx, release_idx,
                    hashmap, line_num, row, key, cerr, exit_code >>

\* Return with return 1 at line 86.
ReturnFailure ==
    /\ pc = "Queried"
    /\ exit_code' = 1
    /\ pc' = "Done"
    /\ UNCHANGED << file, pos, line, headers, package_idx, arch_idx, release_idx,
                    hashmap, line_num, row, key, cout, cerr >>

\* return 0;
Return ==
    /\ pc = "Queried"
    /\ exit_code' = 0
    /\ pc' = "Done"
    /\ UNCHANGED << file, pos, line, headers, package_idx, arch_idx, release_idx,
                    hashmap, line_num, row, key, cout, cerr >>

Next ==
    \/ UsageError
    \/ OpenError
    \/ ReadHeader
    \/ ResolveColumns
    \/ StartIndexing
    \/ IndexLine
    \/ EndIndexing
    \/ Query
    \/ Return

Spec == Init /\ [][Next]_vars

\* main is one thread that runs until it returns: a step that can be taken
\* is taken.
FairInit == file \in FairFiles /\ Started

FairSpec == FairInit /\ [][Next]_vars /\ WF_vars(Next)

\* The loop of lines 57-67 over the lines ls, from the loop state s.
RECURSIVE RunLoop(_, _, _, _, _, _)
RunLoop(s, hdrs, package_i, arch_i, release_i, ls) ==
    IF ls = << >> THEN s
    ELSE RunLoop(LoopBody(s, hdrs, package_i, arch_i, release_i, Head(ls)),
                 hdrs, package_i, arch_i, release_i, Tail(ls))

\* Lines 37-67 on a file f whose header has the three columns: the loop
\* state when the pass is over.
IndexPass(f) ==
    LET hdrs == split_csv_row(f[1]) IN
    RunLoop([ hashmap |-> EmptyMap, line_num |-> 1, cerr |-> << >>,
              row |-> << >>, key |-> << >> ],
            hdrs, FindColumn(hdrs, "package"), FindColumn(hdrs, "architecture"),
            FindColumn(hdrs, "release"), Tail(f))

---------------------------------------------------------------------------
(* Vocabulary of the properties *)

\* The pass over the data lines is over.
PassOver == pc \in {"Indexed", "Queried", "Done"}

\* Line n of the file, lines counted from 1 (the header is line 1).
LineAt(n) == file[n]

\* The numbers of the data lines.
DataLineNums == 2..Len(file)

\* The fields the Row Splitter makes of line n.
Fields(n) == split_csv_row(LineAt(n))

\* Line n has as many fields as the header.
WellFormed(n) == Len(Fields(n)) = Len(split_csv_row(LineAt(1)))

WellFormedLines == { n \in DataLineNums : WellFormed(n) }

\* The (package, architecture, release) triple of a well-formed line.
Triple(n) ==
    << Fields(n)[package_idx + 1], Fields(n)[arch_idx + 1], Fields(n)[release_idx + 1] >>

\* The composite key of a triple.
KeyOf(t) == t[1] \o <<PIPE>> \o t[2] \o <<PIPE>> \o t[3]

Max(S) == CHOOSE x \in S : \A y \in S : y <= x

\* The segments of a line between its delimiters: one more than it has ",".
RECURSIVE Segments(_)
Segments(l) ==
    LET k == FirstComma(l) IN
    IF k = 0 THEN << l >>
    ELSE << SubSeq(l, 1, k - 1) >> \o Segments(SubSeq(l, k + 1, Len(l)))

NumCommas(l) == Cardinality({ i \in 1..Len(l) : l[i] = COMMA })

\* The header line, empty when the file is.
HeaderLine == IF Len(file) >= 1 THEN LineAt(1) ELSE << >>

Required == { "package", "architecture", "release" }

\* The required names that are no column of the header line.
MissingNames ==
    { name \in Required :
        \A i \in 1..Len(Segments(HeaderLine)) : Segments(HeaderLine)[i] # <<name>> }

\* The header line has been read and split (main got past line 39).
HeaderSplit ==
    \/ pc \in {"HeaderRead", "ColumnsResolved", "Indexing", "Indexed", "Queried", "Done"}
    \/ pc = "Error" /\ cerr[Len(cerr)].msg = "Missing required columns"

WarnedLines == { cerr[i].arg : i \in { j \in 1..Len(cerr) : cerr[j].msg = "Warning: Skipping malformed line " } }

---------------------------------------------------------------------------
(* C1 *)

\* C1: last-write-wins by triple.  After the pass, for every triple that two
\* or more well-formed data rows share, the index entry of that triple's
\* composite key is the field sequence of the last row with the triple.
C1_LastWriteWinsByTriple ==
    PassOver =>
        \A m \in WellFormedLines : \A n \in WellFormedLines :
            (m < n /\ Triple(m) = Triple(n)) =>
                LET last == Max({ j \in WellFormedLines : Triple(j) = Triple(n) }) IN
                /\ KeyOf(Triple(n)) \in DOMAIN hashmap
                /\ hashmap[KeyOf(Triple(n))] = Fields(last)

---------------------------------------------------------------------------
(* C2 *)

---------------------------------------------------------------------------
(* C3 *)

---------------------------------------------------------------------------
(* C4 *)

\* C4: when the header line lacks one of package, architecture, release (an
\* empty file and an empty header line included), the run goes from reading
\* the header to the fatal error with exit code 1 and nowhere else: no data
\* line is read, split or indexed, no warning and no count or query output is
\* written.
C4_MissingColumnIsFatal ==
    (MissingNames # {} /\ pc # "Start") =>
        /\ pc \in {"HeaderRead", "Error"}
        /\ pc = "HeaderRead" => ENABLED ResolveColumns
        /\ pc = "Error" => exit_code = 1
        /\ pos <= 1
        /\ line_num = 0
        /\ row = << >>
        /\ key = << >>
        /\ hashmap = EmptyMap
        /\ cout = << >>
        /\ WarnedLines = {}

\* Scenario B: only architecture is absent, data lines follow the header, and
\* the run has ended in the missing-column error.
C4_Witness ==
    /\ pc = "Error"
    /\ MissingNames = {"architecture"}
    /\ Len(file) >= 2
    /\ headers # << >>
    /\ cerr[Len(cerr)].msg = "Missing required columns"

---------------------------------------------------------------------------
(* C5 *)

\* C5: every line the Row Splitter has split (the header, then each data
\* line) came out as its delimiter-separated segments, empty ones kept, so
\* with one more field than the line has ",".
C5_SplitKeepsEverySegment ==
    /\ (HeaderSplit /\ Len(file) >= 1) =>
          /\ headers = Segments(HeaderLine)
          /\ Len(headers) = NumCommas(HeaderLine) + 1
    /\ (pc = "Indexing" /\ pos >= 2) =>
          /\ row = Segments(LineAt(pos))
          /\ Len(row) = NumCommas(LineAt(pos)) + 1

---------------------------------------------------------------------------
(* C6 *)

\* The permutations of the column positions 1..n.
Perms(n) == { f \in [1..n -> 1..n] : \A i, j \in 1..n : f[i] = f[j] => i = j }

PermSeq(q, f) == [ i \in 1..Len(q) |-> q[f[i]] ]

RECURSIVE Join(_)
Join(segs) ==
    IF Len(segs) = 1 THEN segs[1]
    ELSE segs[1] \o <<COMMA>> \o Join(Tail(segs))

\* The columns of a line of n columns permuted; other lines are left alone.
PermLine(l, f, n) ==
    IF Len(Segments(l)) = n THEN Join(PermSeq(Segments(l), f)) ELSE l

PermFile(fl, f, n) == [ i \in 1..Len(fl) |-> PermLine(fl[i], f, n) ]

\* C6: header order independence.  After a pass over a file with a valid
\* header, the pass over the same file with one permutation applied to the
\* columns of the header and of every row of the header's width gives the
\* same keys, each with the identically permuted row, and skips the same
\* lines.
C6_HeaderOrderIndependence ==
    pc = "Done" =>
        LET n == Len(Segments(HeaderLine)) IN
        \A f \in Perms(n) :
            LET other == IndexPass(PermFile(file, f, n)) IN
            /\ DOMAIN other.hashmap = DOMAIN hashmap
            /\ \A k \in DOMAIN hashmap :
                  /\ Len(hashmap[k]) = n
                  /\ other.hashmap[k] = PermSeq(hashmap[k], f)
            /\ other.cerr = cerr

---------------------------------------------------------------------------
(* C7 *)

QueryTriple == << query_package, query_arch, query_release >>

\* The well-formed data lines with the queried triple.
QueryHits == { n \in WellFormedLines : Triple(n) = QueryTriple }

\* The fields of r with sep between neighbours.
RECURSIVE SeparatedBy(_, _)
SeparatedBy(r, sep) ==
    IF r = << >> THEN << >>
    ELSE IF Len(r) = 1 THEN r[1]
    ELSE r[1] \o <<sep>> \o SeparatedBy(Tail(r), sep)

\* The fields of r, each one followed by sep.
RECURSIVE EachFollowedBy(_, _)
EachFollowedBy(r, sep) ==
    IF r = << >> THEN << >>
    ELSE EachFollowedBy(SubSeq(r, 1, Len(r) - 1), sep) \o r[Len(r)] \o <<sep>>

---------------------------------------------------------------------------
(* C8 *)

\* The steps of the state machine in its order, a turn of the loop staying
\* in Indexing.
InOrder(a, b) ==
    << a, b >> \in { << "Start", "HeaderRead" >>,
                     << "HeaderRead", "ColumnsResolved" >>,
                     << "ColumnsResolved", "Indexing" >>,
                     << "Indexing", "Indexing" >>,
                     << "Indexing", "Indexed" >>,
                     << "Indexed", "Queried" >>,
                     << "Queried", "Done" >> }

LastError == cerr[Len(cerr)].msg

\* Every step is the next one of the order or a failure that ends the run
\* with exit code 1; the query comes after the last line; Done has exit
\* code 0 and nothing follows Done or Error.
StepsInOrder ==
    /\ pc' = "Error" \/ InOrder(pc, pc')
    /\ pc' = "Error" => exit_code' = 1
    /\ pc' # "Error" => cerr' = cerr \/ pc = "Indexing"
    /\ pc' = "Queried" => pos = Len(file)
    /\ pc' = "Done" => exit_code' = 0
    /\ pc' \notin {"Done", "Error"} => exit_code' = Running

\* The failures the claim allows: the file open, and HeaderRead to
\* ColumnsResolved.
FailsAtOpenOrColumns ==
    pc' = "Error" =>
        \/ pc = "Start" /\ cerr' = Append(cerr, [ msg |-> "Error opening file: ", arg |-> << >> ])
        \/ pc = "HeaderRead" /\ LastError' = "Missing required columns"

\* The failures there are: the argument count, the file open, and HeaderRead
\* to ColumnsResolved.
FailsAtUsageOpenOrColumns ==
    pc' = "Error" =>
        \/ pc = "Start" /\ LastError' = "Usage: ./csv_hashmap <csv_file>"
        \/ pc = "Start" /\ LastError' = "Error opening file: "
        \/ pc = "HeaderRead" /\ LastError' = "Missing required columns"

\* C8 as stated: the states are traversed in order, the only failing
\* transitions are the file open and HeaderRead to ColumnsResolved, and once
\* the columns are resolved the run reaches Done with exit code 0.
C8_OnlyOpenAndColumnsFail ==
    /\ [][StepsInOrder /\ FailsAtOpenOrColumns]_vars
    /\ (pc = "ColumnsResolved") ~> (pc = "Done" /\ exit_code = 0)

\* C8 as amended: the same, the wrong argument count being a third failing
\* transition, out of Start.
C8_StateMachine ==
    /\ [][StepsInOrder /\ FailsAtUsageOpenOrColumns]_vars
    /\ (pc = "ColumnsResolved") ~> (pc = "Done" /\ exit_code = 0)

\* A run over two data lines, one of them malformed, has reached Done.
C8_Witness ==
    /\ pc = "Done"
    /\ exit_code = 0
    /\ Len(file) = 3
    /\ WarnedLines # {}
    /\ Len(cout) = 2

---------------------------------------------------------------------------
(* C9 *)

\* The names the missing-column message gives.
ReportedNames == { cerr[Len(cerr)].arg[i] : i \in 1..Len(cerr[Len(cerr)].arg) }

MissingColumnReported == pc = "Error" /\ LastError = "Missing required columns"

\* C9 as stated: the names the missing-column condition reports are exactly
\* the required names absent from the header.
C9_ReportsTheMissingNames ==
    MissingColumnReported => ReportedNames = MissingNames

\* C9 as amended: a header without one or more of the required names ends
\* the run in the missing-column condition, which names all three required
\* columns whichever of them are missing.
C9_ReportsAllRequiredNames ==
    (HeaderSplit /\ pc # "HeaderRead" /\ MissingNames # {}) =>
        /\ MissingColumnReported
        /\ cerr = << [ msg |-> "Missing required columns",
                       arg |-> << "package", "architecture", "release" >> ] >>

\* The condition was reported for a header that lacks architecture alone.
C9_Witness ==
    /\ MissingColumnReported
    /\ MissingNames = {"architecture"}

---------------------------------------------------------------------------
(* C10 *)

\* The last turn of the loop took the row to make_key: it wrote no warning
\* for its line.
RowWasKeyed == pc = "Indexing" /\ pos >= 2 /\ line_num \notin WarnedLines

\* C10: whenever a row is passed to make_key the three resolved positions
\* are indices into it, and the key returned is row[package_idx],
\* row[arch_idx], row[release_idx] joined by "|" in that order.
C10_KeyBuilderPrecondition ==
    /\ key # UB
    /\ RowWasKeyed =>
          /\ \A i \in {package_idx, arch_idx, release_idx} : 0 <= i /\ i < Len(row)
          /\ key = row[package_idx + 1] \o <<"|">> \o row[arch_idx + 1]
                     \o <<"|">> \o row[release_idx + 1]
          /\ hashmap[key] = row

\* A row went to make_key under a header whose columns are not in the key's
\* order, after a malformed line was skipped.
C10_Witness ==
    /\ RowWasKeyed
    /\ package_idx = 1 /\ arch_idx = 0 /\ release_idx = 2
    /\ WarnedLines # {}
    /\ key = << "amd64", "|", "openssl", "|", "22.04" >>

=============================================================================
